---- MODULE Spec2Model ----
(***************************************************************************)
(* Model of the adkagents repository: three entry-point scripts built on   *)
(* an agent runner.                                                        *)
(*   complete_script_img_agent.py  VideoContentPipeline (script ->         *)
(*                                 keywords -> placeholder images)         *)
(*   autonomous_agent.py           create_video_content and its three      *)
(*                                 tools                                   *)
(*   script_agent.py               main                                    *)
(* The runner (event stream, session store) is a library: its event stream *)
(* is the environment of the loops modelled here.                          *)
(***************************************************************************)
EXTENDS Integers, Sequences, FiniteSets, TLC

\* ------------------------------------------------------------- bounds
\* events that are not a final response which one event stream may yield
MaxRounds == 2
\* events one stream may yield in script_agent.main after a final response
MaxExtra == 2
\* length of the keyword list in a stage-2 answer
MaxKeywords == 2
\* calls of run_complete_pipeline on one pipeline object
MaxRuns == 2
\* lines in one backend response of generate_video_content
MaxLines == 2
\* the iteration cap N the loop-termination property is stated for
IterationCap == 1

\* ------------------------------------------------------------- texts
\* A text (a Python str) is described by what json.loads makes of it and
\* by the parts of the parsed value the code or the stage contracts read:
\*   fmt     "empty" (the str ""), "garbage" (not JSON), "json", "plain"
\*   top     type of the parsed value: "object", "array", "none"
\*   keys    keys of the top-level object
\*   scenes  the value of "scenes": one set of field names per scene
\*   kwType  type of the value of "keywords": "list", "null", "absent"
\*   kwItems the items of that list
Txt(fmt, top, keys, scenes, kwType, kwItems) ==
    [fmt |-> fmt, top |-> top, keys |-> keys, scenes |-> scenes,
     kwType |-> kwType, kwItems |-> kwItems]

EmptyStr == Txt("empty", "none", {}, <<>>, "absent", <<>>)
Garbage == Txt("garbage", "none", {}, <<>>, "absent", <<>>)
Topic == Txt("plain", "none", {}, <<>>, "absent", <<>>)
JsonArray == Txt("json", "array", {}, <<>>, "absent", <<>>)

SceneFull == {"title", "content"}
SceneNoTitle == {"content"}
ScriptJson(scenes) == Txt("json", "object", {"scenes"}, scenes, "absent", <<>>)

\* items of a keyword list: str values and one value that is not a str
StrItem(s) == [isStr |-> TRUE, v |-> s]
NumItem == [isStr |-> FALSE, v |-> "5"]
KeywordItems == {StrItem("ATP"), StrItem("cell wall"), NumItem}

RECURSIVE SeqsUpTo(_, _)
SeqsUpTo(S, n) ==
    IF n = 0 THEN {<<>>}
    ELSE LET shorter == SeqsUpTo(S, n - 1)
         IN  shorter \cup {Append(q, x) : q \in {r \in shorter : Len(r) = n - 1}, x \in S}

KeywordsJson(items) == Txt("json", "object", {"keywords"}, <<>>, "list", items)
KeywordsNull == Txt("json", "object", {"keywords"}, <<>>, "null", <<>>)
OtherObject == Txt("json", "object", {"other"}, <<>>, "absent", <<>>)

\* terminal answers the script agent may give
ScriptAnswers ==
    {Garbage, ScriptJson(<<SceneFull>>), ScriptJson(<<SceneFull, SceneNoTitle>>)}

\* terminal answers the keyword agent may give
KeywordAnswers ==
    {Garbage, JsonArray, OtherObject, KeywordsNull}
    \cup {KeywordsJson(items) : items \in SeqsUpTo(KeywordItems, MaxKeywords)}

\* terminal answers of the agents of autonomous_agent.py and script_agent.py
PlainAnswers == {Garbage, ScriptJson(<<SceneFull>>)}

\* ------------------------------------------------------------- tools
\* (autonomous_agent.py)  Argument values as the model's function call
\* delivers them: JSON values of any type, whatever the declared annotation.
StrVal(s) == [ty |-> "str", s |-> s, n |-> 0]
IntVal(n) == [ty |-> "int", s |-> "", n |-> n]
ListVal == [ty |-> "list", s |-> "", n |-> 0]
ArgValues == {StrVal("Cell Wall."), StrVal("atp"), ListVal} \cup {IntVal(n) : n \in 0..MaxLines}

\* the tools list of the agent
tools == {"generate_video_content", "search_stock_video", "generate_audio_file"}

\* What one tool call ends with: the JSON object it returned (keys, and
\* value, the tuple of the values in key order), or the exception that left
\* the function.
Returned(keys, value) == [status |-> "returned", keys |-> keys, exc |-> "", value |-> value]
Raised(exc) == [status |-> "raised", keys |-> {}, exc |-> exc, value |-> <<>>]
NoToolResult == [status |-> "none", keys |-> {}, exc |-> "", value |-> <<>>]

\* except Exception as e: return json.dumps({"error": str(e)})
ToolEscape(exc) == Raised(exc)
ToolExcept(exc) == Returned({"error"}, <<exc>>)

\* lines of a backend response
Line(kind, body) == [kind |-> kind, body |-> body]
Lines == {Line("blank", ""), Line("chatter", "Here are the points"),
          Line("numbered", "Mitochondria make ATP"), Line("plain", "Cells need energy")}
Backends ==
    {[fault |-> f, lines |-> <<>>] : f \in {"api_error", "blocked"}}
    \cup {[fault |-> "none", lines |-> ls] : ls \in SeqsUpTo(Lines, MaxLines)}

\* the cleaning loop: blank lines and chatter are dropped, numbering is
\* stripped, the rest is kept in order
RECURSIVE CleanLines(_)
CleanLines(ls) ==
    IF ls = <<>> THEN <<>>
    ELSE LET l == Head(ls)
         IN  IF l.kind \in {"blank", "chatter"} THEN CleanLines(Tail(ls))
             ELSE <<l.body>> \o CleanLines(Tail(ls))

\* content_list[:scene_count], scene_count >= 0
SliceTo(q, n) == SubSeq(q, 1, IF n < Len(q) THEN n ELSE Len(q))

\* the exception the body of the try block raises, "" when it raises none
VideoContentFault(scene_count, backend) ==
    IF backend.fault = "api_error" THEN "GoogleAPIError"
    ELSE IF backend.fault = "blocked" THEN "ValueError"
    ELSE IF scene_count.ty # "int" THEN "TypeError"
    ELSE ""

generate_video_content(topic, scene_count, backend) ==
    LET exc == VideoContentFault(scene_count, backend)
    IN  IF exc # "" THEN ToolExcept(exc)
        ELSE Returned({"content_points"},
                      <<SliceTo(CleanLines(backend.lines), scene_count.n)>>)

\* abs(hash(query)) % 10000000
HashModulus == 10000000
Abs(n) == IF n < 0 THEN -n ELSE n
\* str hashes are salted per process: the hash of a query is any of these
Hashes == {7, -7, HashModulus + 7}

\* query.lower().replace(" ", "-").replace(".", "")
CleanQuery(s) ==
    CASE s = "Cell Wall." -> "cell-wall"
      [] s = "atp" -> "atp"
      [] OTHER -> s

search_stock_video(query, h) ==
    IF query.ty # "str" THEN ToolExcept("AttributeError")
    ELSE LET clean_query == CleanQuery(query.s)
             video_id == Abs(h) % HashModulus
         IN  Returned({"video", "poster"},
                      <<<<video_id, clean_query, "mp4">>, <<video_id, clean_query, "jpg">>>>)

\* random_chars: four characters drawn at random
RandomChars == {"A1B2", "ZZ99"}
\* the file system: whether mkdir and open succeed
FileSystems == [mkdir : BOOLEAN, open : BOOLEAN]

generate_audio_file(text, index, fs, random_chars) ==
    IF ~fs.mkdir THEN ToolExcept("OSError")
    ELSE IF ~fs.open THEN ToolExcept("OSError")
    ELSE Returned({"audio_file", "text"}, <<<<index, random_chars, "mp3">>, text>>)

\* the keys of a successful result of each tool
SuccessKeys(tool) ==
    CASE tool = "generate_video_content" -> {"content_points"}
      [] tool = "search_stock_video" -> {"video", "poster"}
      [] tool = "generate_audio_file" -> {"audio_file", "text"}

\* ------------------------------------------------------------- state
VARIABLES
    prog,             \* the entry point that runs: "pipeline", "autonomous", "script_agent"
    pc,               \* where the coroutine is
    runs,             \* calls of run_complete_pipeline so far on the pipeline object
    sessions,         \* session_service: session id -> the session's events, in order
    exists,           \* ids of the sessions session_service holds
    rounds,           \* events skipped by the running loop (they were no final response)
    script,           \* run_complete_pipeline: script
    keywords,         \* run_complete_pipeline: keywords
    i,                \* generate_images: keywords iterated so far
    generated_files,  \* generate_images: generated_files
    faulted,          \* an except clause of generate_images ran in this call
    outcome,          \* what the caller of the entry point got
    cancelledIn,      \* the await at which the caller cancelled the task
    toolName,         \* the tool called last
    toolResult,       \* what that call ended with
    printed,          \* script_agent.main: the responses printed
    extra             \* script_agent.main: events consumed after a final response

vars == <<prog, pc, runs, sessions, exists, rounds, script, keywords, i,
          generated_files, faulted, outcome, cancelledIn, toolName, toolResult,
          printed, extra>>

pipelineVars == <<runs, sessions, exists, script, keywords, i, generated_files,
                  faulted, cancelledIn>>
toolVars == <<toolName, toolResult>>
mainVars == <<printed, extra>>

SessionIds == {"script_session", "keyword_session"}
Turn(role, tag, text) == [role |-> role, tag |-> tag, text |-> text]

\* a local that is not assigned yet
Unset == Txt("unset", "none", {}, <<>>, "absent", <<>>)

\* what the caller gets: a returned value (keys: those of the returned dict)
\* or an exception
Pending ==
    [kind |-> "pending", keys |-> {}, exc |-> "", script |-> Unset,
     keywords |-> Unset, generated_files |-> <<>>]
Exception(exc) ==
    [kind |-> "exception", keys |-> {}, exc |-> exc, script |-> Unset,
     keywords |-> Unset, generated_files |-> <<>>]
ResultDict(s, k, files) ==
    [kind |-> "result", keys |-> {"script", "keywords", "generated_files", "images_folder"},
     exc |-> "", script |-> s, keywords |-> k, generated_files |-> files]
ResultText(t) ==
    [kind |-> "result", keys |-> {}, exc |-> "", script |-> t,
     keywords |-> Unset, generated_files |-> <<>>]

Progs == {"pipeline", "autonomous", "script_agent"}

Init ==
    /\ prog \in Progs
    /\ pc = "start"
    /\ runs = 0
    /\ sessions = [s \in SessionIds |-> <<>>]
    /\ exists = {}
    /\ rounds = 0
    /\ script = Unset
    /\ keywords = Unset
    /\ i = 0
    /\ generated_files = <<>>
    /\ faulted = FALSE
    /\ outcome = Pending
    /\ cancelledIn = "none"
    /\ toolName = "none"
    /\ toolResult = NoToolResult
    /\ printed = <<>>
    /\ extra = 0

\* ------------------------------------------------------------- pipeline
\* (complete_script_img_agent.py)

\* a call of run_complete_pipeline on the pipeline object
run_complete_pipeline ==
    /\ prog = "pipeline"
    /\ pc \in {"start", "done"}
    /\ runs < MaxRuns
    /\ runs' = runs + 1
    /\ pc' = "init"
    /\ script' = Unset
    /\ keywords' = Unset
    /\ i' = 0
    /\ generated_files' = <<>>
    /\ faulted' = FALSE
    /\ outcome' = Pending
    /\ cancelledIn' = "none"
    /\ rounds' = 0
    /\ UNCHANGED <<prog, sessions, exists, toolVars, mainVars>>

\* create_session of both ids, unconditionally.  What the in-memory session
\* service does with an id it already holds depends on the library release:
\* it stores a new, empty session under the id, or it raises
\* AlreadyExistsError.
initialize_sessions ==
    /\ prog = "pipeline"
    /\ pc = "init"
    /\ \/ /\ sessions' = [s \in SessionIds |-> <<>>]
          /\ exists' = SessionIds
          /\ pc' = "script_send"
          /\ UNCHANGED outcome
       \/ /\ "script_session" \in exists
          /\ outcome' = Exception("AlreadyExistsError")
          /\ pc' = "done"
          /\ UNCHANGED <<sessions, exists>>
    /\ UNCHANGED <<prog, runs, rounds, script, keywords, i, generated_files,
                   faulted, cancelledIn, toolVars, mainVars>>

\* generate_script up to the loop: the prompt built from the topic is
\* handed to the runner, which appends it to the script session
generate_script ==
    /\ prog = "pipeline"
    /\ pc = "script_send"
    /\ sessions' = [sessions EXCEPT !["script_session"] =
                        Append(@, Turn("user", "script_prompt", Topic))]
    /\ rounds' = 0
    /\ pc' = "script_loop"
    /\ UNCHANGED <<prog, runs, exists, script, keywords, i, generated_files,
                   faulted, outcome, cancelledIn, toolVars, mainVars>>

\* extract_keywords up to the loop: the prompt embeds script_content
KeywordPayload(s) == s
extract_keywords ==
    /\ prog = "pipeline"
    /\ pc = "keyword_send"
    /\ sessions' = [sessions EXCEPT !["keyword_session"] =
                        Append(@, Turn("user", "keyword_prompt", KeywordPayload(script)))]
    /\ rounds' = 0
    /\ pc' = "keyword_loop"
    /\ UNCHANGED <<prog, runs, exists, script, keywords, i, generated_files,
                   faulted, outcome, cancelledIn, toolVars, mainVars>>

\* ------------------------------------------------------------- the loops
\* async for event in runner.run_async(...):
\*     if event.is_final_response(): <capture>; break
\* in generate_script, extract_keywords and create_video_content.  The
\* stream is the runner's: any number of events that are no final response,
\* then a final response, the end of the stream, or an exception.
BreakLoops == {"script_loop", "keyword_loop", "video_loop"}

SessionOf(at) ==
    CASE at = "script_loop" -> "script_session"
      [] at = "keyword_loop" -> "keyword_session"

\* the runner appends each event it yields to the session of the run
AppendEvent(turn) ==
    IF pc \in {"script_loop", "keyword_loop"}
    THEN sessions' = [sessions EXCEPT ![SessionOf(pc)] = Append(@, turn)]
    ELSE UNCHANGED sessions

Answers(at) ==
    CASE at = "script_loop" -> ScriptAnswers
      [] at = "keyword_loop" -> KeywordAnswers
      [] OTHER -> PlainAnswers

\* a loop that treats a stream without final response as a failure
LoopReturnOrFail(text) ==
    IF text = EmptyStr
    THEN /\ outcome' = Exception("LoopExhausted")
         /\ pc' = "done"
         /\ UNCHANGED <<script, keywords>>
    ELSE CASE pc = "script_loop" ->
                 /\ script' = text
                 /\ pc' = "keyword_send"
                 /\ UNCHANGED <<keywords, outcome>>
           [] pc = "keyword_loop" ->
                 /\ keywords' = text
                 /\ pc' = "mkdir"
                 /\ UNCHANGED <<script, outcome>>
           [] pc = "video_loop" ->
                 /\ outcome' = ResultText(text)
                 /\ pc' = "done"
                 /\ UNCHANGED <<script, keywords>>

\* the function returns `text` to its caller, which goes on
LoopReturn(text) ==
    CASE pc = "script_loop" ->
            /\ script' = text
            /\ pc' = "keyword_send"
            /\ UNCHANGED <<keywords, outcome>>
      [] pc = "keyword_loop" ->
            /\ keywords' = text
            /\ pc' = "mkdir"
            /\ UNCHANGED <<script, outcome>>
      [] pc = "video_loop" ->
            /\ outcome' = ResultText(text)
            /\ pc' = "done"
            /\ UNCHANGED <<script, keywords>>

\* an event of an agent without tools that is no final response: skipped
event_not_final ==
    /\ pc \in {"script_loop", "keyword_loop"}
    /\ rounds < MaxRounds
    /\ rounds' = rounds + 1
    /\ AppendEvent(Turn("model", "partial", EmptyStr))
    /\ UNCHANGED <<prog, pc, runs, exists, script, keywords, i, generated_files,
                   faulted, outcome, cancelledIn, toolVars, mainVars>>

\* a final response: its text is captured and the loop is left
event_final ==
    /\ pc \in BreakLoops
    /\ \E text \in Answers(pc) :
          /\ AppendEvent(Turn("model", "final", text))
          /\ LoopReturn(text)
    /\ UNCHANGED <<prog, runs, exists, rounds, i, generated_files, faulted,
                   cancelledIn, toolVars, mainVars>>

\* the stream ends and no event was a final response: the initial "" is
\* returned
stream_end ==
    /\ pc \in BreakLoops
    /\ LoopReturn(EmptyStr)
    /\ UNCHANGED <<prog, runs, sessions, exists, rounds, i, generated_files,
                   faulted, cancelledIn, toolVars, mainVars>>

\* the runner raises, or the final response has no text part and
\* event.content.parts[0].text raises: the exception leaves the function
\* and run_complete_pipeline
loop_raises ==
    /\ pc \in BreakLoops
    /\ \E exc \in {"RunnerError", "IndexError"} : outcome' = Exception(exc)
    /\ pc' = "done"
    /\ UNCHANGED <<prog, runs, sessions, exists, rounds, script, keywords, i,
                   generated_files, faulted, cancelledIn, toolVars, mainVars>>

\* the caller cancels the task that runs run_complete_pipeline while it is
\* suspended in an await: CancelledError is thrown into the coroutine there
\* and nothing catches it
AwaitOf(at) ==
    CASE at = "init" -> "init"
      [] at = "script_loop" -> "stage1"
      [] at = "keyword_loop" -> "stage2"
cancel ==
    /\ prog = "pipeline"
    /\ pc \in {"init", "script_loop", "keyword_loop"}
    /\ cancelledIn' = AwaitOf(pc)
    /\ outcome' = Exception("CancelledError")
    /\ pc' = "done"
    /\ UNCHANGED <<prog, runs, sessions, exists, rounds, script, keywords, i,
                   generated_files, faulted, toolVars, mainVars>>

\* ------------------------------------------------------------- images
\* create_images_folder: mkdir(exist_ok=True) outside any try
create_images_folder ==
    /\ pc = "mkdir"
    /\ \E ok \in BOOLEAN :
          IF ok THEN pc' = "images" /\ UNCHANGED outcome
          ELSE pc' = "done" /\ outcome' = Exception("OSError")
    /\ UNCHANGED <<prog, runs, sessions, exists, rounds, script, keywords, i,
                   generated_files, faulted, cancelledIn, toolVars, mainVars>>

\* json.loads(keywords_json); keywords_data.get("keywords", []);
\* len(keywords): the exception these raise, "" when none
KeywordsFault(text) ==
    IF text.fmt # "json" THEN "JSONDecodeError"
    ELSE IF text.top # "object" THEN "AttributeError"
    ELSE IF "keywords" \in text.keys /\ text.kwType # "list" THEN "TypeError"
    ELSE ""

\* keywords_data.get("keywords", [])
GetKeywords(text) == IF "keywords" \in text.keys THEN text.kwItems ELSE <<>>

\* keyword.replace(' ', '_').lower()
LowerUnderscore(s) ==
    CASE s = "ATP" -> "atp"
      [] s = "cell wall" -> "cell_wall"
      [] OTHER -> s

\* str(output_folder / f"{...}_{i+1}.txt"), i counted from 0
FilePath(keyword, n) == <<"generated_images", LowerUnderscore(keyword.v), n + 1>>

\* generate_images up to the for loop
generate_images ==
    /\ pc = "images"
    /\ generated_files' = <<>>
    /\ i' = 0
    /\ IF KeywordsFault(keywords) # ""
       THEN faulted' = TRUE /\ pc' = "return"
       ELSE /\ faulted' = FALSE
            /\ pc' = IF GetKeywords(keywords) = <<>> THEN "return" ELSE "images_loop"
    /\ UNCHANGED <<prog, runs, sessions, exists, rounds, script, keywords,
                   outcome, cancelledIn, toolVars, mainVars>>

\* one iteration of the for loop; its except clause prints and goes on
generate_images_keyword ==
    /\ pc = "images_loop"
    /\ i < Len(GetKeywords(keywords))
    /\ LET keyword == GetKeywords(keywords)[i + 1]
       IN  \E open_ok \in BOOLEAN :
              IF keyword.isStr /\ open_ok
              THEN /\ generated_files' = Append(generated_files, FilePath(keyword, i))
                   /\ UNCHANGED faulted
              ELSE /\ faulted' = TRUE
                   /\ UNCHANGED generated_files
    /\ i' = i + 1
    /\ pc' = IF i + 1 = Len(GetKeywords(keywords)) THEN "return" ELSE "images_loop"
    /\ UNCHANGED <<prog, runs, sessions, exists, rounds, script, keywords,
                   outcome, cancelledIn, toolVars, mainVars>>

\* return {"script": ..., "keywords": ..., "generated_files": ..., "images_folder": ...}
return_result ==
    /\ pc = "return"
    /\ outcome' = ResultDict(script, keywords, generated_files)
    /\ pc' = "done"
    /\ UNCHANGED <<prog, runs, sessions, exists, rounds, script, keywords, i,
                   generated_files, faulted, cancelledIn, toolVars, mainVars>>

\* ------------------------------------------------------------- autonomous
\* (autonomous_agent.py)

\* create_video_content up to the loop: a new session service, the session,
\* the runner and the prompt
create_video_content ==
    /\ prog = "autonomous"
    /\ pc = "start"
    /\ pc' = "video_loop"
    /\ rounds' = 0
    /\ UNCHANGED <<prog, pipelineVars, outcome, toolVars, mainVars>>

\* one round: the model asks for a tool of the agent, the runner calls it
\* with the arguments of the function call and yields the function-call and
\* function-response events, which the loop skips
tool_round ==
    /\ pc = "video_loop"
    /\ rounds < MaxRounds
    /\ \/ \E topic \in ArgValues, scene_count \in ArgValues, backend \in Backends :
             /\ toolName' = "generate_video_content"
             /\ toolResult' = generate_video_content(topic, scene_count, backend)
       \/ \E query \in ArgValues, h \in Hashes :
             /\ toolName' = "search_stock_video"
             /\ toolResult' = search_stock_video(query, h)
       \/ \E text \in ArgValues, index \in ArgValues, fs \in FileSystems,
             random_chars \in RandomChars :
             /\ toolName' = "generate_audio_file"
             /\ toolResult' = generate_audio_file(text, index, fs, random_chars)
    /\ rounds' = rounds + 1
    /\ UNCHANGED <<prog, pc, pipelineVars, outcome, mainVars>>

\* ------------------------------------------------------------- script_agent
\* (script_agent.py)  main: the session, the runner, the prompt
main ==
    /\ prog = "script_agent"
    /\ pc = "start"
    /\ pc' = "main_loop"
    /\ rounds' = 0
    /\ UNCHANGED <<prog, pipelineVars, outcome, toolVars, mainVars>>

\* the loop of main has no break: an event after a final response is
\* consumed like one before it
MainConsumes ==
    IF printed = <<>>
    THEN rounds < MaxRounds /\ rounds' = rounds + 1 /\ UNCHANGED extra
    ELSE extra < MaxExtra /\ extra' = extra + 1 /\ UNCHANGED rounds

main_event_not_final ==
    /\ pc = "main_loop"
    /\ MainConsumes
    /\ UNCHANGED <<prog, pc, pipelineVars, outcome, toolVars, printed>>

\* if event.is_final_response(): print(...)
main_event_final ==
    /\ pc = "main_loop"
    /\ \E text \in PlainAnswers : printed' = Append(printed, text)
    /\ IF printed = <<>> THEN UNCHANGED <<rounds, extra>>
       ELSE extra < MaxExtra /\ extra' = extra + 1 /\ UNCHANGED rounds
    /\ UNCHANGED <<prog, pc, pipelineVars, outcome, toolVars>>

\* the stream ends: main returns None
main_stream_end ==
    /\ pc = "main_loop"
    /\ pc' = "done"
    /\ outcome' = ResultText(Unset)
    /\ UNCHANGED <<prog, pipelineVars, rounds, toolVars, mainVars>>

\* ------------------------------------------------------------- specification
Next ==
    \/ run_complete_pipeline
    \/ initialize_sessions
    \/ generate_script
    \/ extract_keywords
    \/ event_not_final
    \/ event_final
    \/ stream_end
    \/ loop_raises
    \/ cancel
    \/ create_images_folder
    \/ generate_images
    \/ generate_images_keyword
    \/ return_result
    \/ create_video_content
    \/ tool_round
    \/ main
    \/ main_event_not_final
    \/ main_event_final
    \/ main_stream_end

Spec == Init /\ [][Next]_vars

TypeOK ==
    /\ prog \in Progs
    /\ runs \in 0..MaxRuns
    /\ rounds \in 0..MaxRounds
    /\ extra \in 0..MaxExtra
    /\ i \in 0..MaxKeywords
    /\ Len(generated_files) <= i
    /\ exists \subseteq SessionIds

\* ------------------------------------------------------------- stage contracts
\* the shapes the stages are to hand on: a script is an object whose scenes
\* each have a title and content; a keyword payload is an object whose
\* "keywords" is a list of strings
ValidScript(t) ==
    /\ t.fmt = "json"
    /\ t.top = "object"
    /\ "scenes" \in t.keys
    /\ \A n \in 1..Len(t.scenes) : SceneFull \subseteq t.scenes[n]

ValidKeywords(t) ==
    /\ t.fmt = "json"
    /\ t.top = "object"
    /\ "keywords" \in t.keys
    /\ t.kwType = "list"
    /\ \A n \in 1..Len(t.kwItems) : t.kwItems[n].isStr

\* valid structured data that lacks a required field
LacksRequiredField(t) ==
    /\ t.fmt = "json"
    /\ t.top = "object"
    /\ \/ "keywords" \notin t.keys /\ "scenes" \notin t.keys
       \/ \E n \in 1..Len(t.scenes) : "title" \notin t.scenes[n]

IsPrefix(p, q) == Len(p) <= Len(q) /\ SubSeq(q, 1, Len(p)) = p

\* ------------------------------------------------------------- claims

\* C1: a stage whose terminal answer is valid structured data lacking a
\* required field ends in ContractViolation; no run returns a result built on
\* such an answer (an empty keyword list substituted for the missing field).
C1_ContractEnforced ==
    (prog = "pipeline" /\ outcome.kind = "result")
        => /\ ~LacksRequiredField(outcome.script)
           /\ ~LacksRequiredField(outcome.keywords)

\* C2: a run of the pipeline in which a stage failed (unparseable or
\* mis-shaped terminal answer, no terminal answer, a fault while producing
\* artifacts) never ends in a result.
C2_FailurePropagates ==
    (prog = "pipeline" /\ outcome.kind = "result")
        => /\ ValidScript(outcome.script)
           /\ ValidKeywords(outcome.keywords)
           /\ ~faulted

C4_LoopStopsAtCap ==
    pc \in BreakLoops => rounds <= IterationCap

\* C5: every result of the pipeline has one artifact per keyword of stage
\* 2's output, the n-th artifact being that of the n-th keyword.
C5_OneArtifactPerKeyword ==
    (prog = "pipeline" /\ outcome.kind = "result")
        => /\ Len(outcome.generated_files) = Len(outcome.keywords.kwItems)
           /\ \A n \in 1..Len(outcome.generated_files) :
                 outcome.generated_files[n] = FilePath(outcome.keywords.kwItems[n], n - 1)

\* C6: stage k+1 starts only after stage k's loop has reached its terminal
\* answer, and the payload in stage k+1's instruction is stage k's validated
\* output.
C6_ValidatedHandoff ==
    /\ pc \in {"keyword_send", "keyword_loop"} => script \notin {Unset, EmptyStr}
    /\ pc \in {"images", "images_loop"} => keywords \notin {Unset, EmptyStr}
    /\ \A n \in 1..Len(sessions["keyword_session"]) :
          LET turn == sessions["keyword_session"][n]
          IN  turn.role = "user" => ValidScript(turn.text)
    /\ pc \in {"images", "images_loop"} => ValidKeywords(keywords)

\* C7: no step shortens the transcript of a session or changes a turn
\* already in it.
C7_TranscriptAppendOnly ==
    [][\A sid \in SessionIds : IsPrefix(sessions[sid], sessions'[sid])]_vars

\* C8: a run cancelled while stage 2 is active ends in a Cancelled outcome
\* that references stage 2 and holds stage 1's output unchanged.
C8_CancelledOutcome ==
    cancelledIn = "stage2"
        => /\ outcome.exc = "CancelledError"
           /\ "stage" \in outcome.keys
           /\ "script" \in outcome.keys
           /\ outcome.script = script

\* C10: after a final response the invocation consumes no further event
\* and takes no later final response.
C10_StopsAtFinal ==
    /\ extra = 0
    /\ Len(printed) <= 1

\* no event of the session is a final response
NoFinal(sid) ==
    \A n \in 1..Len(sessions[sid]) : sessions[sid][n].tag # "final"

PastStage2 == {"mkdir", "images", "images_loop", "return"}
PastStage1 == {"keyword_send", "keyword_loop"} \cup PastStage2

\* C11: a stream that ends without a final response makes generate_script,
\* extract_keywords and create_video_content return "" as an ordinary
\* result: no failure outcome comes of it, run_complete_pipeline hands the
\* "" on as the next stage's input (the keyword prompt's payload, the
\* keywords_json of generate_images, which then yields no file) and the
\* result it returns holds it.  The only exceptions that end a run are those
\* of the runner, of mkdir, of session creation and of task cancellation.
C11_EmptyStringPassedOn ==
    /\ (prog = "pipeline" /\ pc \in PastStage1 /\ NoFinal("script_session"))
           => script = EmptyStr /\ outcome = Pending
    /\ (prog = "pipeline" /\ pc \in PastStage2 /\ NoFinal("keyword_session"))
           => keywords = EmptyStr /\ outcome = Pending
    /\ (prog = "pipeline" /\ pc \in ({"keyword_loop"} \cup PastStage2))
           => /\ Len(sessions["keyword_session"]) >= 1
              /\ sessions["keyword_session"][1] = Turn("user", "keyword_prompt", script)
    /\ (pc = "images_loop") => keywords # EmptyStr
    /\ (pc = "return" /\ keywords = EmptyStr) => generated_files = <<>>
    /\ (prog = "pipeline" /\ outcome.kind = "result")
           => outcome.script = script /\ outcome.keywords = keywords
    /\ (prog = "autonomous" /\ outcome.script = EmptyStr)
           => outcome.kind = "result" /\ pc = "done"
    /\ outcome.kind = "exception"
           => outcome.exc \in {"AlreadyExistsError", "RunnerError", "IndexError",
                               "CancelledError", "OSError"}

\* both streams of a pipeline run ended without a final response and the run
\* returned its result
C11_Witness ==
    /\ prog = "pipeline"
    /\ pc = "done"
    /\ outcome.kind = "result"
    /\ outcome.script = EmptyStr
    /\ outcome.keywords = EmptyStr
    /\ NoFinal("script_session")
    /\ NoFinal("keyword_session")

====
